---- MODULE Spec2Model ----
(***************************************************************************)
(* Model of light_cnns/Inception/Xception.py: the layer objects built by   *)
(* SeparableConv2d.__init__, Block.__init__ and Xception.__init__, and the *)
(* tensor (shape, buffer, provenance) each forward method produces.        *)
(*                                                                         *)
(* A tensor is a record                                                    *)
(*   shape : <<N, C, H, W>> (or <<N, F>> after view)                       *)
(*   buf   : the storage it lives in (in-place operations keep the buffer) *)
(*   src   : the type of the operation that produced it                    *)
(*   raw   : the names of the BatchNorm2d layers whose output it carries   *)
(*           without a ReLU applied since                                  *)
(*   red   : the product of the strides applied on the way to it           *)
(***************************************************************************)
EXTENDS Integers, Sequences, FiniteSets, TLC

VARIABLES pc, args, input, training, self, x, nbuf, trace, err

vars == <<pc, args, input, training, self, x, nbuf, trace, err>>

(***************************************************************************)
(* Bounds of the model.                                                    *)
(***************************************************************************)
MaxBatch == 2
MaxChans == 2
MaxClasses == 2
MaxSize == 39
MinSize == 7
MaxReps == 3
MaxStride == 3
MaxBlockSize == 4
MaxKernel == 4
MaxSepChans == 4

GlobalPools == {"avg", "max"}
DropRates == {0, 50}          \* drop_rate in percent: 0. and 0.5

None == [type |-> "None"]

(***************************************************************************)
(* Errors.                                                                 *)
(***************************************************************************)
NoErr == [by |-> "none", at |-> <<>>, why |-> ""]
FrameworkError(at, why) == [by |-> "framework", at |-> at, why |-> why]
RepositoryError(at, why) == [by |-> "repository", at |-> at, why |-> why]

(***************************************************************************)
(* Layer objects of the host framework, as the constructors store them.    *)
(***************************************************************************)
Conv2d(in_channels, out_channels, kernel_size, stride, padding, dilation, groups) ==
    [type |-> "Conv2d", in_channels |-> in_channels, out_channels |-> out_channels,
     kernel_size |-> kernel_size, stride |-> stride, padding |-> padding,
     dilation |-> dilation, groups |-> groups]

BatchNorm2d(num_features) == [type |-> "BatchNorm2d", num_features |-> num_features]

ReLU(inplace) == [type |-> "ReLU", inplace |-> inplace]

MaxPool2d(kernel_size, stride, padding) ==
    [type |-> "MaxPool2d", kernel_size |-> kernel_size, stride |-> stride,
     padding |-> padding]

Linear(in_features, out_features) ==
    [type |-> "Linear", in_features |-> in_features, out_features |-> out_features]

(***************************************************************************)
(* SeparableConv2d.__init__                                                *)
(***************************************************************************)
DefaultKernelSize == 1

\* variant: the spatial convolution is not grouped
SeparableConv2dUngrouped(in_channels, out_channels, kernel_size, stride, padding, dilation) ==
    [type |-> "SeparableConv2d",
     conv1 |-> Conv2d(in_channels, in_channels, kernel_size, stride, padding,
                      dilation, 1),
     pointwise |-> Conv2d(in_channels, out_channels, 1, 1, 0, 1, 1)]

SeparableConv2d(in_channels, out_channels, kernel_size, stride, padding, dilation) ==
    [type |-> "SeparableConv2d",
     conv1 |-> Conv2d(in_channels, in_channels, kernel_size, stride, padding,
                      dilation, in_channels),
     pointwise |-> Conv2d(in_channels, out_channels, 1, 1, 0, 1, 1)]

\* number of entries of the weight of a bias-free convolution:
\* out_channels x (in_channels / groups) x k x k
NumWeights(conv) ==
    conv.out_channels * (conv.in_channels \div conv.groups)
        * conv.kernel_size * conv.kernel_size

SeparableWeights(sep) == NumWeights(sep.conv1) + NumWeights(sep.pointwise)

(***************************************************************************)
(* Shape arithmetic of the framework's sliding-window operations.          *)
(***************************************************************************)
WindowFits(s, k, p, d) == s + 2 * p >= d * (k - 1) + 1

WindowOut(s, k, st, p, d) == ((s + 2 * p - d * (k - 1) - 1) \div st) + 1

Broadcastable(from, to) ==
    /\ Len(from) = Len(to)
    /\ \A i \in 1..Len(to) : from[i] = to[i] \/ from[i] = 1

(***************************************************************************)
(* Forward pass.  A machine m is the state a forward method threads        *)
(* through the layers it calls: the current tensor x, the number of        *)
(* buffers allocated, the trace of operations applied, and the error       *)
(* raised (once an error is raised no further layer runs).                 *)
(***************************************************************************)
NoOperand == [shape |-> <<>>, buf |-> -1]

Raised(m) == m.err.by # "none"

Raise(m, e) == [m EXCEPT !.err = e]

Emit(m, name, type, out, other, writes, kernel) ==
    [m EXCEPT !.x = out,
              !.nbuf = IF out.buf = m.nbuf THEN m.nbuf + 1 ELSE m.nbuf,
              !.trace = Append(@, [name |-> name, type |-> type,
                                   in |-> m.x.shape, insrc |-> m.x.src,
                                   inraw |-> m.x.raw, inbuf |-> m.x.buf,
                                   out |-> out.shape, other |-> other,
                                   writes |-> writes, red |-> out.red,
                                   kernel |-> kernel])]

\* nn.Conv2d.forward
ConvForward(L, name, m) ==
    IF Raised(m) THEN m
    ELSE LET s == m.x.shape IN
         IF Len(s) # 4 \/ s[2] # L.in_channels
         THEN Raise(m, FrameworkError(name, "channels"))
         ELSE IF ~ WindowFits(s[3], L.kernel_size, L.padding, L.dilation)
                 \/ ~ WindowFits(s[4], L.kernel_size, L.padding, L.dilation)
         THEN Raise(m, FrameworkError(name, "size"))
         ELSE Emit(m, name, "Conv2d",
                   [shape |-> <<s[1], L.out_channels,
                                WindowOut(s[3], L.kernel_size, L.stride, L.padding, L.dilation),
                                WindowOut(s[4], L.kernel_size, L.stride, L.padding, L.dilation)>>,
                    buf |-> m.nbuf, src |-> "Conv2d", raw |-> {},
                    red |-> m.x.red * L.stride],
                   NoOperand, -1, L.kernel_size)

\* nn.BatchNorm2d.forward; in training mode the framework refuses an input
\* with a single value per channel
BatchNormForward(L, name, m) ==
    IF Raised(m) THEN m
    ELSE LET s == m.x.shape IN
         IF Len(s) # 4 \/ s[2] # L.num_features
         THEN Raise(m, FrameworkError(name, "channels"))
         ELSE IF m.training /\ s[1] * s[3] * s[4] = 1
         THEN Raise(m, FrameworkError(name, "batch"))
         ELSE Emit(m, name, "BatchNorm2d",
                   [shape |-> s, buf |-> m.nbuf, src |-> "BatchNorm2d",
                    raw |-> {name}, red |-> m.x.red],
                   NoOperand, -1, 0)

\* nn.ReLU.forward: in place it overwrites the buffer of its input
ReLUForward(L, name, m) ==
    IF Raised(m) THEN m
    ELSE Emit(m, name, "ReLU",
              [shape |-> m.x.shape,
               buf |-> IF L.inplace THEN m.x.buf ELSE m.nbuf,
               src |-> "ReLU", raw |-> {}, red |-> m.x.red],
              NoOperand, IF L.inplace THEN m.x.buf ELSE -1, 0)

\* nn.MaxPool2d.forward
MaxPoolForward(L, name, m) ==
    IF Raised(m) THEN m
    ELSE LET s == m.x.shape IN
         IF Len(s) # 4
               \/ ~ WindowFits(s[3], L.kernel_size, L.padding, 1)
               \/ ~ WindowFits(s[4], L.kernel_size, L.padding, 1)
         THEN Raise(m, FrameworkError(name, "size"))
         ELSE Emit(m, name, "MaxPool2d",
                   [shape |-> <<s[1], s[2],
                                WindowOut(s[3], L.kernel_size, L.stride, L.padding, 1),
                                WindowOut(s[4], L.kernel_size, L.stride, L.padding, 1)>>,
                    buf |-> m.nbuf, src |-> "MaxPool2d", raw |-> m.x.raw,
                    red |-> m.x.red * L.stride],
                   NoOperand, -1, L.kernel_size)

\* nn.Linear.forward
LinearForward(L, name, m) ==
    IF Raised(m) THEN m
    ELSE LET s == m.x.shape IN
         IF s[Len(s)] # L.in_features
         THEN Raise(m, FrameworkError(name, "features"))
         ELSE Emit(m, name, "Linear",
                   [shape |-> [s EXCEPT ![Len(s)] = L.out_features],
                    buf |-> m.nbuf, src |-> "Linear", raw |-> {}, red |-> m.x.red],
                   NoOperand, -1, 0)

\* SeparableConv2d.forward
SeparableForward(L, name, m) ==
    ConvForward(L.pointwise, name \o <<"pointwise">>,
                ConvForward(L.conv1, name \o <<"conv1">>, m))

LayerForward(L, name, m) ==
    CASE L.type = "Conv2d" -> ConvForward(L, name, m)
      [] L.type = "BatchNorm2d" -> BatchNormForward(L, name, m)
      [] L.type = "ReLU" -> ReLUForward(L, name, m)
      [] L.type = "MaxPool2d" -> MaxPoolForward(L, name, m)
      [] L.type = "Linear" -> LinearForward(L, name, m)
      [] L.type = "SeparableConv2d" -> SeparableForward(L, name, m)

\* nn.Sequential.forward: the children, named "0", "1", ..., in order
RECURSIVE SequentialForward(_, _, _, _)
SequentialForward(seq, name, i, m) ==
    IF i > Len(seq) THEN m
    ELSE SequentialForward(seq, name, i + 1,
                           LayerForward(seq[i], name \o <<ToString(i - 1)>>, m))

\* x += skip: the sum is written into the buffer of x
AddInplace(m, skip, name) ==
    IF Raised(m) THEN m
    ELSE IF ~ Broadcastable(skip.shape, m.x.shape)
    THEN Raise(m, FrameworkError(name \o <<"add">>, "shape"))
    ELSE Emit(m, name \o <<"add">>, "add",
              [shape |-> m.x.shape, buf |-> m.x.buf, src |-> "add",
               raw |-> m.x.raw \cup skip.raw, red |-> m.x.red],
              [shape |-> skip.shape, buf |-> skip.buf], m.x.buf, 0)

(***************************************************************************)
(* Block.__init__                                                          *)
(***************************************************************************)
NeedsProjection(in_channels, out_channels, strides) ==
    out_channels # in_channels \/ strides # 1

RepInc(in_channels, out_channels, i, grow_first) ==
    IF grow_first THEN (IF i = 0 THEN in_channels ELSE out_channels)
    ELSE in_channels

\* variant: every separable convolution grows to out_channels
RepOutcAlwaysGrows(in_channels, out_channels, i, reps, grow_first) ==
    out_channels

RepOutc(in_channels, out_channels, i, reps, grow_first) ==
    IF grow_first THEN out_channels
    ELSE (IF i < reps - 1 THEN in_channels ELSE out_channels)

RepUnit(inc, outc) ==
    <<ReLU(TRUE), SeparableConv2d(inc, outc, 3, 1, 1, 1), BatchNorm2d(outc)>>

RECURSIVE RepLoop(_, _, _, _, _)
RepLoop(in_channels, out_channels, reps, grow_first, i) ==
    IF i >= reps THEN <<>>
    ELSE RepUnit(RepInc(in_channels, out_channels, i, grow_first),
                 RepOutc(in_channels, out_channels, i, reps, grow_first))
         \o RepLoop(in_channels, out_channels, reps, grow_first, i + 1)

\* variant: the leading ReLU is dropped whatever start_with_relu is
RepHeadDropsReLU(rep, start_with_relu) ==
    SubSeq(rep, 2, Len(rep))

\* variant: the leading ReLU is left in place
RepHeadKeepsInplace(rep, start_with_relu) ==
    IF ~ start_with_relu THEN SubSeq(rep, 2, Len(rep))
    ELSE rep

\* rep = rep[1:]  or  rep[0] = nn.ReLU(inplace=False)
RepHead(rep, start_with_relu) ==
    IF ~ start_with_relu THEN SubSeq(rep, 2, Len(rep))
    ELSE [rep EXCEPT ![1] = ReLU(FALSE)]

\* variant: the pooling is not padded
RepPoolUnpadded(strides) ==
    IF strides # 1 THEN <<MaxPool2d(3, strides, 0)>> ELSE <<>>

RepPool(strides) ==
    IF strides # 1 THEN <<MaxPool2d(3, strides, 1)>> ELSE <<>>

Block(in_channels, out_channels, reps, strides, start_with_relu, grow_first) ==
    LET proj == NeedsProjection(in_channels, out_channels, strides)
        rep == RepLoop(in_channels, out_channels, reps, grow_first, 0)
    IN  IF start_with_relu /\ Len(rep) = 0
        THEN [type |-> "Block", skip |-> None, skipbn |-> None, rep |-> <<>>,
              raised |-> RepositoryError(<<"Block.__init__", "rep[0]">>, "IndexError")]
        ELSE [type |-> "Block",
              skip |-> IF proj THEN Conv2d(in_channels, out_channels, 1, strides, 0, 1, 1)
                       ELSE None,
              skipbn |-> IF proj THEN BatchNorm2d(out_channels) ELSE None,
              rep |-> RepHead(rep, start_with_relu) \o RepPool(strides),
              raised |-> NoErr]

(***************************************************************************)
(* Block.forward                                                           *)
(***************************************************************************)
BlockForward(B, name, m) ==
    IF Raised(m) THEN m
    ELSE LET inp == m.x
             main == SequentialForward(B.rep, name \o <<"rep">>, 1, m)
             side == IF B.skip.type # "None"
                     THEN BatchNormForward(B.skipbn, name \o <<"skipbn">>,
                              ConvForward(B.skip, name \o <<"skip">>,
                                          [main EXCEPT !.x = inp]))
                     ELSE [main EXCEPT !.x = inp]
         IN  AddInplace([side EXCEPT !.x = main.x], side.x, name)

(***************************************************************************)
(* State of a run.                                                         *)
(***************************************************************************)
InputTensor(i) ==
    [shape |-> <<i.n, i.c, i.h, i.w>>, buf |-> 0, src |-> "input", raw |-> {},
     red |-> 1]

\* the machine a handler starts from; trace holds the operations of the
\* handler that ran last
Machine == [x |-> x, nbuf |-> nbuf, trace |-> <<>>, err |-> err,
            training |-> training]

Commit(m, nxt) ==
    /\ x' = m.x
    /\ nbuf' = m.nbuf
    /\ trace' = m.trace
    /\ err' = m.err
    /\ pc' = IF Raised(m) THEN "raised" ELSE nxt
    /\ UNCHANGED <<args, input, training, self>>

Inputs(sizes) ==
    [n : 1..MaxBatch, c : 1..MaxChans, h : sizes, w : sizes]

\* square images of every size, and images whose width is the smallest
\* forward accepts or the largest of the model
Images ==
    {i \in Inputs(1..MaxSize) : i.w \in {i.h, MinSize, MaxSize}}

Fresh(i) ==
    /\ pc = "new"
    /\ input = i
    /\ self = None
    /\ x = InputTensor(i)
    /\ nbuf = 1
    /\ trace = <<>>
    /\ err = NoErr

(***************************************************************************)
(* SeparableConv2d on its own.                                             *)
(***************************************************************************)
InitSep ==
    /\ args \in [in_channels : 1..MaxSepChans, out_channels : 1..MaxSepChans,
                 kernel_size : DefaultKernelSize..MaxKernel, padding : 0..1]
    /\ training = TRUE
    /\ \E i \in [n : {1}, c : 1..MaxSepChans, h : 1..MaxBlockSize, w : {MaxBlockSize}] :
          Fresh(i)

SepInit ==
    /\ pc = "new"
    /\ self' = SeparableConv2d(args.in_channels, args.out_channels,
                               args.kernel_size, 1, args.padding, 1)
    /\ pc' = "ready"
    /\ UNCHANGED <<args, input, training, x, nbuf, trace, err>>

SepCall ==
    /\ pc = "ready"
    /\ Commit(SeparableForward(self, <<>>, Machine), "done")

NextSep == SepInit \/ SepCall

SpecSep == InitSep /\ [][NextSep]_vars

(***************************************************************************)
(* Block on its own.                                                       *)
(***************************************************************************)
InitBlock ==
    /\ args \in [in_channels : 1..MaxChans, out_channels : 1..MaxChans,
                 reps : 0..MaxReps, strides : 1..MaxStride,
                 start_with_relu : BOOLEAN, grow_first : BOOLEAN]
    /\ training \in BOOLEAN
    /\ \E i \in Inputs(1..MaxBlockSize) : Fresh(i)

BlockInit ==
    /\ pc = "new"
    /\ LET B == Block(args.in_channels, args.out_channels, args.reps,
                      args.strides, args.start_with_relu, args.grow_first)
       IN  IF B.raised.by # "none"
           THEN /\ err' = B.raised
                /\ pc' = "raised"
                /\ self' = self
           ELSE /\ self' = B
                /\ pc' = "ready"
                /\ err' = err
    /\ UNCHANGED <<args, input, training, x, nbuf, trace>>

BlockCall ==
    /\ pc = "ready"
    /\ Commit(BlockForward(self, <<>>, Machine), "done")

NextBlock == BlockInit \/ BlockCall

SpecBlock == InitBlock /\ [][NextBlock]_vars

(***************************************************************************)
(* Xception.__init__                                                       *)
(***************************************************************************)
NumFeatures == 2048

\* variant: the entry for block12 carries the reduction of its output
FeatureInfoLate ==
    << [num_chs |-> 64, reduction |-> 2, module |-> <<"act2">>],
       [num_chs |-> 128, reduction |-> 4, module |-> <<"block2", "rep", "0">>],
       [num_chs |-> 256, reduction |-> 8, module |-> <<"block3", "rep", "0">>],
       [num_chs |-> 1024, reduction |-> 32, module |-> <<"block12", "rep", "0">>],
       [num_chs |-> 2048, reduction |-> 32, module |-> <<"act4">>] >>

\* module names are dotted paths; a name is kept as the sequence of its parts
FeatureInfo ==
    << [num_chs |-> 64, reduction |-> 2, module |-> <<"act2">>],
       [num_chs |-> 128, reduction |-> 4, module |-> <<"block2", "rep", "0">>],
       [num_chs |-> 256, reduction |-> 8, module |-> <<"block3", "rep", "0">>],
       [num_chs |-> 728, reduction |-> 16, module |-> <<"block12", "rep", "0">>],
       [num_chs |-> 2048, reduction |-> 32, module |-> <<"act4">>] >>

EntryBlock(i) ==
    CASE i = 1 -> Block(64, 128, 2, 2, FALSE, TRUE)
      [] i = 2 -> Block(128, 256, 2, 2, TRUE, TRUE)
      [] i = 3 -> Block(256, 728, 2, 2, TRUE, TRUE)

MiddleBlock == Block(728, 728, 3, 1, TRUE, TRUE)

\* variant: the exit block grows first
ExitBlockGrowsFirst == Block(728, 1024, 2, 2, TRUE, TRUE)

ExitBlock == Block(728, 1024, 2, 2, TRUE, FALSE)

Xception(num_classes, in_chans, drop_rate, global_pool) ==
    [type |-> "Xception",
     drop_rate |-> drop_rate,
     global_pool |-> global_pool,
     num_classes |-> num_classes,
     num_features |-> NumFeatures,
     conv1 |-> Conv2d(in_chans, 32, 3, 2, 0, 1, 1),
     bn1 |-> BatchNorm2d(32),
     act1 |-> ReLU(TRUE),
     conv2 |-> Conv2d(32, 64, 3, 1, 0, 1, 1),
     bn2 |-> BatchNorm2d(64),
     act2 |-> ReLU(TRUE),
     block1 |-> EntryBlock(1),
     block2 |-> EntryBlock(2),
     block3 |-> EntryBlock(3),
     block4 |-> MiddleBlock,
     block5 |-> MiddleBlock,
     block6 |-> MiddleBlock,
     block7 |-> MiddleBlock,
     block8 |-> MiddleBlock,
     block9 |-> MiddleBlock,
     block10 |-> MiddleBlock,
     block11 |-> MiddleBlock,
     block12 |-> ExitBlock,
     conv3 |-> SeparableConv2d(1024, 1536, 3, 1, 1, 1),
     bn3 |-> BatchNorm2d(1536),
     act3 |-> ReLU(TRUE),
     conv4 |-> SeparableConv2d(1536, NumFeatures, 3, 1, 1, 1),
     bn4 |-> BatchNorm2d(NumFeatures),
     act4 |-> ReLU(TRUE),
     feature_info |-> FeatureInfo,
     fc |-> Linear(NumFeatures, num_classes)]

(***************************************************************************)
(* Xception.forward_features and Xception.forward                          *)
(***************************************************************************)
Features ==
    << "conv1", "bn1", "act1", "conv2", "bn2", "act2",
       "block1", "block2", "block3", "block4", "block5", "block6",
       "block7", "block8", "block9", "block10", "block11", "block12",
       "conv3", "bn3", "act3", "conv4", "bn4", "act4" >>

Program == Features \o << "avg_pool2d", "dropout", "view", "fc" >>

After(stmt) ==
    LET i == CHOOSE j \in 1..Len(Program) : Program[j] = stmt
    IN  IF i = Len(Program) THEN "done" ELSE Program[i + 1]

\* variant: the pooling follows global_pool
PoolOpByArgument(net) ==
    IF net.global_pool = "max" THEN "max_pool2d" ELSE "avg_pool2d"

\* the pooling forward applies
PoolOp(net) == "avg_pool2d"

\* adaptiveAvgPoolWidth = x.shape[2]; F.avg_pool2d(x, kernel_size=...)
AvgPoolForward(net, m) ==
    IF Raised(m) THEN m
    ELSE LET s == m.x.shape
             k == s[3]
         IN  IF ~ WindowFits(s[3], k, 0, 1) \/ ~ WindowFits(s[4], k, 0, 1)
             THEN Raise(m, FrameworkError(<<PoolOp(net)>>, "size"))
             ELSE Emit(m, <<PoolOp(net)>>, PoolOp(net),
                       [shape |-> <<s[1], s[2], WindowOut(s[3], k, k, 0, 1),
                                    WindowOut(s[4], k, k, 0, 1)>>,
                        buf |-> m.nbuf, src |-> PoolOp(net), raw |-> m.x.raw,
                        red |-> m.x.red * k],
                       NoOperand, -1, k)

\* if self.drop_rate > 0: x = F.dropout(x, ...)
DropoutForward(net, m) ==
    IF Raised(m) \/ ~ (net.drop_rate > 0) THEN m
    ELSE Emit(m, <<"dropout">>, "dropout",
              [m.x EXCEPT !.buf = m.nbuf, !.src = "dropout"], NoOperand, -1, 0)

RECURSIVE Numel(_, _)
Numel(s, i) == IF i > Len(s) THEN 1 ELSE s[i] * Numel(s, i + 1)

\* x.view(x.size(0), -1): same buffer, all but the first dimension flattened
ViewForward(m) ==
    IF Raised(m) THEN m
    ELSE Emit(m, <<"view">>, "view",
              [m.x EXCEPT !.shape = <<m.x.shape[1], Numel(m.x.shape, 2)>>,
                          !.src = "view"],
              NoOperand, -1, 0)

Exec(stmt, net, m) ==
    CASE stmt = "avg_pool2d" -> AvgPoolForward(net, m)
      [] stmt = "dropout" -> DropoutForward(net, m)
      [] stmt = "view" -> ViewForward(m)
      [] OTHER -> IF net[stmt].type = "Block"
                  THEN BlockForward(net[stmt], <<stmt>>, m)
                  ELSE LayerForward(net[stmt], <<stmt>>, m)

Step(stmt) ==
    /\ pc = stmt
    /\ Commit(Exec(stmt, self, Machine), After(stmt))

XceptionInit ==
    /\ pc = "new"
    /\ self' = Xception(args.num_classes, args.in_chans, args.drop_rate,
                        args.global_pool)
    /\ pc' = Program[1]
    /\ UNCHANGED <<args, input, training, x, nbuf, trace, err>>

Conv1 == Step("conv1")
Bn1 == Step("bn1")
Act1 == Step("act1")
Conv2 == Step("conv2")
Bn2 == Step("bn2")
Act2 == Step("act2")
Block1 == Step("block1")
Block2 == Step("block2")
Block3 == Step("block3")
Block4 == Step("block4")
Block5 == Step("block5")
Block6 == Step("block6")
Block7 == Step("block7")
Block8 == Step("block8")
Block9 == Step("block9")
Block10 == Step("block10")
Block11 == Step("block11")
Block12 == Step("block12")
Conv3 == Step("conv3")
Bn3 == Step("bn3")
Act3 == Step("act3")
Conv4 == Step("conv4")
Bn4 == Step("bn4")
Act4 == Step("act4")
AvgPool == Step("avg_pool2d")
Dropout == Step("dropout")
View == Step("view")
Fc == Step("fc")

Init ==
    /\ args \in [num_classes : 1..MaxClasses, in_chans : 1..MaxChans,
                 drop_rate : DropRates, global_pool : GlobalPools]
    /\ training \in BOOLEAN
    /\ \E i \in Images : Fresh(i)

Next ==
    \/ XceptionInit
    \/ Conv1 \/ Bn1 \/ Act1 \/ Conv2 \/ Bn2 \/ Act2
    \/ Block1 \/ Block2 \/ Block3 \/ Block4 \/ Block5 \/ Block6
    \/ Block7 \/ Block8 \/ Block9 \/ Block10 \/ Block11 \/ Block12
    \/ Conv3 \/ Bn3 \/ Act3 \/ Conv4 \/ Bn4 \/ Act4
    \/ AvgPool \/ Dropout \/ View \/ Fc

Spec == Init /\ [][Next]_vars

(***************************************************************************)
(* Properties of SeparableConv2d (checked under SpecSep).                  *)
(***************************************************************************)
\* the single standard convolution a SeparableConv2d stands in for
StandardConv(a) ==
    Conv2d(a.in_channels, a.out_channels, a.kernel_size, 1, a.padding, 1, 1)

\* C3 as stated: a constructed SeparableConv2d always has strictly fewer
\* weights than the standard convolution with the same channels and kernel
C3_SeparableAlwaysSmaller ==
    pc # "new" => SeparableWeights(self) < NumWeights(StandardConv(args))

\* C3 amended: a constructed SeparableConv2d has strictly fewer weights than
\* the standard convolution exactly when kernel_size >= 2 and
\* out_channels >= 2; with kernel_size = 1 (the default) or out_channels = 1
\* it has strictly more
C3_SeparableSmallerIffLargeKernel ==
    pc # "new" =>
        IF args.kernel_size >= 2 /\ args.out_channels >= 2
        THEN SeparableWeights(self) < NumWeights(StandardConv(args))
        ELSE SeparableWeights(self) > NumWeights(StandardConv(args))

C3_Witness ==
    /\ pc = "done"
    /\ args.kernel_size = 3
    /\ args.in_channels = 3
    /\ args.out_channels = 2
    /\ SeparableWeights(self) = 33
    /\ NumWeights(StandardConv(args)) = 54

(***************************************************************************)
(* Properties of Block (checked under SpecBlock).                          *)
(***************************************************************************)
Events == {trace[k] : k \in 1..Len(trace)}

NamedEvents(name) == {e \in Events : e.name = name}

\* C2: with reps >= 1 the in-place addition never fails on its operands, and
\* whenever it runs both operands have the same shape with out_channels
\* channels; the skip operand is the output of a 1x1 convolution of stride
\* strides followed by batch norm exactly when out_channels # in_channels or
\* strides # 1, and is the input tensor itself otherwise
C2_ResidualOperandsAgree ==
    args.reps >= 1 =>
        /\ ~ (pc = "raised" /\ err.why = "shape")
        /\ \A e \in Events : e.type = "add" =>
              /\ e.in = e.other.shape
              /\ e.in[2] = args.out_channels
              /\ e.out = e.in
              /\ IF args.out_channels # args.in_channels \/ args.strides # 1
                 THEN /\ \E c \in NamedEvents(<<"skip">>) :
                            /\ c.type = "Conv2d"
                            /\ c.kernel = 1
                            /\ c.inbuf = 0
                            /\ c.red = args.strides
                      /\ \E b \in NamedEvents(<<"skipbn">>) :
                            /\ b.type = "BatchNorm2d"
                            /\ b.insrc = "Conv2d"
                            /\ b.out = e.other.shape
                      /\ e.other.buf # 0
                 ELSE /\ NamedEvents(<<"skip">>) = {}
                      /\ NamedEvents(<<"skipbn">>) = {}
                      /\ e.other.buf = 0
                      /\ e.other.shape = InputTensor(input).shape

C2_Witness ==
    /\ pc = "done"
    /\ args.reps = 2
    /\ args.strides = 2
    /\ ~ args.grow_first
    /\ args.in_channels # args.out_channels
    /\ input.h = 3
    /\ input.w = 4
    /\ x.shape = <<input.n, args.out_channels, 2, 2>>

\* C5 as stated: no error is raised by a statement of the repository itself
C5_OnlyFrameworkRaises == err.by # "repository"

\* C9: with reps >= 1 the first layer of rep is a ReLU that is not in place
\* or a SeparableConv2d, and no operation of Block.forward writes into the
\* buffer of the tensor passed as inp
C9_InputNeverOverwritten ==
    (pc \in {"ready", "done"} /\ args.reps >= 1) =>
        /\ IF args.start_with_relu
           THEN self.rep[1] = ReLU(FALSE)
           ELSE self.rep[1].type = "SeparableConv2d"
        /\ \A e \in Events : e.writes # InputTensor(input).buf

C9_Witness ==
    /\ pc = "done"
    /\ args.reps = 3
    /\ args.start_with_relu
    /\ args.in_channels = args.out_channels
    /\ args.strides = 1
    /\ \E e \in Events : e.type = "ReLU" /\ e.writes > 0
    /\ \E e \in Events : e.type = "add" /\ e.writes > 0 /\ e.other.buf = 0

(***************************************************************************)
(* Properties of Xception (checked under Spec).                            *)
(***************************************************************************)
Position(stmt) == CHOOSE j \in 1..Len(Program) : Program[j] = stmt

BlockNames == {Program[j] : j \in 7..18}

StridedBlocks == {"block1", "block2", "block3", "block12"}

MiddleBlocks == BlockNames \ StridedBlocks

\* C1: fed an input of in_chans channels, no layer of forward is handed a
\* number of channels other than the one it was constructed for; the tensor
\* has num_features = 2048 channels from conv4 to the classifier, which is
\* built for as many inputs, and forward ends with num_classes outputs
C1_ChannelsConsistent ==
    input.c = args.in_chans =>
        /\ ~ (pc = "raised" /\ err.why = "channels")
        /\ pc \in {"bn4", "act4", "avg_pool2d", "dropout"} =>
              /\ x.shape[2] = NumFeatures
              /\ self.fc.in_features = x.shape[2]
              /\ self.num_features = x.shape[2]
        /\ pc = "done" => x.shape[Len(x.shape)] = args.num_classes

C1_Witness ==
    /\ pc = "done"
    /\ args.in_chans = 2
    /\ input.c = 2
    /\ args.num_classes = 2
    /\ x.shape = <<input.n, 2>>

\* C4 as stated: every BatchNorm2d is handed the direct output of a
\* convolution, and no convolution is handed a tensor that carries a batch
\* norm output no ReLU has been applied to
C4_NormBetweenConvAndReLU ==
    \A e \in Events :
        /\ e.type = "BatchNorm2d" => e.insrc = "Conv2d"
        /\ e.type = "Conv2d" => e.inraw = {}

\* the batch norms whose output enters a residual addition: skipbn and the
\* last BatchNorm2d of a rep sequence
IsResidualNorm(name) ==
    /\ Len(name) >= 2
    /\ name[1] \in BlockNames
    /\ \/ name[2] = "skipbn"
       \/ /\ name[2] = "rep"
          /\ LET rep == self[name[1]].rep
             IN  \E k \in 1..Len(rep) :
                    /\ ToString(k - 1) = name[3]
                    /\ rep[k].type = "BatchNorm2d"
                    /\ \A j \in (k + 1)..Len(rep) : rep[j].type # "BatchNorm2d"

\* the convolutions fed a residual sum directly
UnactivatedConvs ==
    { <<"block2", "skip">>, <<"block3", "skip">>, <<"block12", "skip">>,
      <<"conv3", "conv1">> }

\* C4 amended: every BatchNorm2d is handed the direct output of a
\* convolution; the output of bn1..bn4 and of every BatchNorm2d of a rep
\* sequence but its last passes through a ReLU before any further
\* convolution; the output of the last BatchNorm2d of a rep sequence and of
\* a skipbn enters the residual addition, and the sum reaches a convolution
\* without a ReLU only at the skip projections of block2, block3, block12
\* and at conv3
C4_NormThenReLUExceptResidual ==
    \A e \in Events :
        /\ e.type = "BatchNorm2d" => e.insrc = "Conv2d"
        /\ (e.type = "Conv2d" /\ e.inraw # {}) =>
              /\ e.name \in UnactivatedConvs
              /\ e.insrc = "add"
              /\ \A n \in e.inraw : IsResidualNorm(n)
        /\ (e.type = "Conv2d" /\ e.name \in UnactivatedConvs) => e.inraw # {}

C4_Witness ==
    /\ pc = "conv3"
    /\ \E e \in NamedEvents(<<"block12", "skip">>) :
          /\ <<"block11", "rep", "8">> \in e.inraw
          /\ <<"block3", "skipbn">> \in e.inraw
    /\ \E e \in NamedEvents(<<"block12", "rep", "1", "conv1">>) :
          e.insrc = "ReLU" /\ e.inraw = {}

IsSeparable(L) == L.type = "SeparableConv2d"

IsMaxPool(L) == L.type = "MaxPool2d"

\* the <<in_channels, out_channels>> of the separable convolutions of a rep
SepChannels(rep) ==
    LET seps == SelectSeq(rep, IsSeparable)
    IN  [k \in 1..Len(seps) |->
            <<seps[k].conv1.in_channels, seps[k].pointwise.out_channels>>]

RECURSIVE SepCount(_, _)
SepCount(net, names) ==
    IF names = {} THEN 0
    ELSE LET n == CHOOSE b \in names : TRUE
         IN  Len(SepChannels(net[n].rep)) + SepCount(net, names \ {n})

Sep3x3(L) ==
    /\ L.type = "SeparableConv2d"
    /\ L.conv1.kernel_size = 3
    /\ L.conv1.stride = 1
    /\ L.conv1.padding = 1

\* C6: the constructed graph is the entry, middle and exit flow the claim
\* enumerates; exactly block1, block2, block3 and block12 project their skip
\* and halve the spatial size (rounding up), block4..block11 leave the shape
\* unchanged, and the main path holds 2 plain and 34 separable convolutions
C6_XceptionArchitecture ==
    pc # "new" =>
        /\ self.conv1.kernel_size = 3 /\ self.conv1.stride = 2
        /\ self.conv1.out_channels = 32
        /\ self.conv2.kernel_size = 3 /\ self.conv2.stride = 1
        /\ self.conv2.in_channels = 32 /\ self.conv2.out_channels = 64
        /\ SepChannels(self.block1.rep) = << <<64, 128>>, <<128, 128>> >>
        /\ SepChannels(self.block2.rep) = << <<128, 256>>, <<256, 256>> >>
        /\ SepChannels(self.block3.rep) = << <<256, 728>>, <<728, 728>> >>
        /\ Cardinality(MiddleBlocks) = 8
        /\ MiddleBlocks = {"block4", "block5", "block6", "block7", "block8",
                           "block9", "block10", "block11"}
        /\ \A b \in MiddleBlocks :
              SepChannels(self[b].rep)
                  = << <<728, 728>>, <<728, 728>>, <<728, 728>> >>
        /\ SepChannels(self.block12.rep) = << <<728, 728>>, <<728, 1024>> >>
        /\ \A b \in BlockNames :
              /\ \A k \in 1..Len(self[b].rep) :
                    IsSeparable(self[b].rep[k]) => Sep3x3(self[b].rep[k])
              /\ IF b \in StridedBlocks
                 THEN /\ self[b].skip.type = "Conv2d"
                      /\ self[b].skip.stride = 2
                      /\ self[b].skip.kernel_size = 1
                      /\ SelectSeq(self[b].rep, IsMaxPool) = <<MaxPool2d(3, 2, 1)>>
                 ELSE /\ self[b].skip.type = "None"
                      /\ SelectSeq(self[b].rep, IsMaxPool) = <<>>
        /\ Sep3x3(self.conv3) /\ Sep3x3(self.conv4)
        /\ self.conv3.conv1.in_channels = 1024
        /\ self.conv3.pointwise.out_channels = 1536
        /\ self.conv4.conv1.in_channels = 1536
        /\ self.conv4.pointwise.out_channels = 2048
        /\ SepCount(self, BlockNames) + 2 = 34
        /\ 2 + SepCount(self, BlockNames) + 2 = 36
        /\ (trace # <<>> /\ trace[Len(trace)].type = "add") =>
              LET b == trace[1].name[1]
                  i == trace[1].in
                  o == trace[Len(trace)].out
              IN  IF b \in StridedBlocks
                  THEN /\ o[3] = (i[3] + 1) \div 2
                       /\ o[4] = (i[4] + 1) \div 2
                       /\ o[1] = i[1]
                  ELSE /\ o = i
                       /\ trace[Len(trace)].other.buf = trace[1].inbuf

C6_Witness ==
    /\ pc = "conv3"
    /\ input.h = 39
    /\ input.w = 39
    /\ x.shape = <<input.n, 1024, 2, 2>>
    /\ trace[1].in = <<input.n, 728, 3, 3>>

\* C7 as stated (for the inputs batch norm accepts: in evaluation mode, or
\* with more than one value per channel): an input of in_chans channels and
\* height and width >= 7 never makes forward raise; every feature map has
\* height and width >= 1; the pooled map is 1 x 1, the flattened tensor has
\* num_features entries per sample, and the result has shape
\* (N, num_classes)
C7_ForwardShape ==
    (/\ input.c = args.in_chans
     /\ input.h >= MinSize
     /\ input.w >= MinSize
     /\ (~ training \/ input.n > 1)) =>
        /\ pc # "raised"
        /\ \A e \in Events : \A d \in 1..Len(e.out) : e.out[d] >= 1
        /\ pc = "dropout" => x.shape = <<input.n, NumFeatures, 1, 1>>
        /\ pc = "fc" => x.shape = <<input.n, NumFeatures>>
        /\ pc = "done" => x.shape = <<input.n, args.num_classes>>

ModuleExists(net, path) ==
    /\ Len(path) \in {1, 3}
    /\ path[1] \in DOMAIN net
    /\ Len(path) = 1 =>
          net[path[1]].type \in {"Conv2d", "BatchNorm2d", "ReLU", "Linear",
                                 "SeparableConv2d", "Block"}
    /\ Len(path) = 3 =>
          /\ path[1] \in BlockNames
          /\ path[2] = "rep"
          /\ \E k \in 1..Len(net[path[1]].rep) : ToString(k - 1) = path[3]

\* C8: each module feature_info names exists in the constructed model; when
\* forward runs that module its output has num_chs channels and the strides
\* applied on the way to it multiply to reduction; the entries are in
\* forward order with strictly increasing reduction
C8_FeatureInfoAgrees ==
    pc # "new" =>
        /\ Len(self.feature_info) = 5
        /\ \A k \in 1..Len(self.feature_info) :
              LET f == self.feature_info[k]
              IN  /\ ModuleExists(self, f.module)
                  /\ \A e \in NamedEvents(f.module) :
                        /\ e.out[2] = f.num_chs
                        /\ e.red = f.reduction
                  /\ \A j \in 1..(k - 1) :
                        /\ self.feature_info[j].reduction < f.reduction
                        /\ Position(self.feature_info[j].module[1])
                              < Position(f.module[1])

C8_Witness ==
    /\ pc = "conv3"
    /\ \E e \in NamedEvents(<<"block12", "rep", "0">>) :
          /\ e.type = "ReLU"
          /\ e.out[2] = 728
          /\ e.red = 16

\* C10: at every statement of forward the model built with another value of
\* global_pool applies the same operation to the same tensor with the same
\* result, and the pooling is always an average over a window of the
\* feature-map height
C10_GlobalPoolIgnored ==
    /\ pc \in {Program[j] : j \in 1..Len(Program)} =>
          \A g \in GlobalPools :
              Exec(pc, [self EXCEPT !.global_pool = g], Machine)
                  = Exec(pc, self, Machine)
    /\ \A e \in Events :
          e.name \in {<<"avg_pool2d">>, <<"max_pool2d">>} =>
              /\ e.type = "avg_pool2d"
              /\ e.kernel = e.in[3]

C10_Witness ==
    /\ pc = "done"
    /\ args.global_pool = "max"
    /\ args.drop_rate = 0
    /\ input.h = 39
    /\ input.w = 39
    /\ x.shape = <<input.n, args.num_classes>>

====
